---- MODULE Spec2Model ----
(***************************************************************************)
(* EthernetClass (src/src/Ethernet.cpp): the interface manager that        *)
(* brackets chip-driver register I/O in SPI bus transactions, brings the   *)
(* interface up with static addresses or through the DHCP negotiator, and  *)
(* republishes a renewed lease in maintain().                              *)
(*                                                                         *)
(* Every member function is modelled statement by statement: pc names the  *)
(* source line about to execute ("idle" between calls), call holds the     *)
(* function and its actual arguments, loc its locals.  log is the list of  *)
(* external calls (bus, chip driver, negotiator) the current call has made *)
(* so far, each with the bus nesting depth at which it was issued; pre is  *)
(* the manager/chip state at entry of the current call, and everDhcp tells  *)
(* whether the DHCP bring-up has been called on this manager so far;         *)
(* instances counts the DhcpClass objects constructed so far.  second is the *)
(* state of a second user of the SPI bus, which holds the bus only between   *)
(* its own beginTransaction and endTransaction; committed is the chip's      *)
(* (local address, gateway, subnet) as the manager's last completed bus      *)
(* transaction left it; lastSetter is the last address setter called, if no  *)
(* other call that can write the chip has been entered since; staticCfg is   *)
(* the address set of the last static bring-up that completed, if no         *)
(* bring-up or address setter has been entered since.                        *)
(***************************************************************************)
EXTENDS Integers, Sequences, FiniteSets, TLC

VARIABLES chip, _dnsServerAddress, _dhcp, lease, held, pc, call, loc, ret, log, pre,
          everDhcp, instances, second, committed, lastSetter, staticCfg

vars == <<chip, _dnsServerAddress, _dhcp, lease, held, pc, call, loc, ret, log, pre, everDhcp, instances, second, committed, lastSetter, staticCfg>>

----------------------------------------------------------------------------
(* Value domains *)

\* Number of distinct networks static addresses are drawn from.
NumNets == 2

\* Number of distinct MAC addresses callers supply.
NumMacs == 2

ZeroAddr == <<0, 0, 0, 0>>
NoAddr == <<>>
ZeroMac == <<0, 0, 0, 0, 0, 0>>

MACs == {<<222, 173, 190, 239, 254, m>> : m \in 1..NumMacs}
StaticIPs == {<<192, 168, n, 50>> : n \in 1..NumNets}
DnsArgs == {<<8, 8, 4, 4>>}
GatewayArgs == {<<192, 168, 9, 254>>}
SubnetArgs == {<<255, 255, 0, 0>>}
SetterAddrs == {<<172, 16, 0, 7>>}

\* What the negotiator can hold as its current lease.
NoLease == [ip |-> ZeroAddr, gw |-> ZeroAddr, mask |-> ZeroAddr, dns |-> ZeroAddr]
Leases ==
  { [ip |-> <<10, 0, 0, 5>>, gw |-> <<10, 0, 0, 1>>,
     mask |-> <<255, 255, 255, 0>>, dns |-> <<8, 8, 8, 8>>],
    [ip |-> <<10, 0, 0, 9>>, gw |-> <<10, 0, 0, 254>>,
     mask |-> <<255, 0, 0, 0>>, dns |-> <<1, 1, 1, 1>>] }
LeaseStates == Leases \cup {NoLease}

\* Results of DhcpClass::checkLease.
CheckCodes == {"DHCP_CHECK_NONE", "DHCP_CHECK_RENEW_FAIL", "DHCP_CHECK_RENEW_OK",
               "DHCP_CHECK_REBIND_FAIL", "DHCP_CHECK_REBIND_OK"}

\* Results of W5100Class::getLinkStatus; "OTHER" is a value outside the enum.
LinkCodes == {"UNKNOWN", "LINK_ON", "LINK_OFF", "OTHER"}

\* Results of W5100Class::getChip: decimal 51/52/55, hexadecimal 0x51/0x52/0x55
\* (81/82/85) and 0 for no chip.
ChipCodes == {0, 51, 52, 55, 81, 82, 85}

NoDhcp == 0

\* The chip registers before the manager has written any of them.
ChipReset == [mac |-> ZeroMac, ip |-> ZeroAddr, gw |-> ZeroAddr, sn |-> ZeroAddr,
              rtr |-> 0, rcr |-> 0]

\* Arguments of the retransmission setters in the general specification Spec.
\* The two retransmission registers interact with nothing else, so Spec
\* exercises the calls with one argument each; SpecRetransmission covers
\* every value of the timeout.
TimeoutArgs == {0}
CountArgs == {0}

\* uint16_t milliseconds: every value of the type.
Uint16 == 0..(2^16 - 1)

\* Conversion of an int to the uint16_t parameter of setRetransmissionTime.
ToUint16(x) == x % (2^16)
NoLocals == [mac |-> NoAddr, ip |-> NoAddr, dns |-> NoAddr, gateway |-> NoAddr,
             subnet |-> NoAddr, rc |-> "unset", init |-> -1, milliseconds |-> -1,
             num |-> -1]

----------------------------------------------------------------------------
(* Bookkeeping shared by all member functions *)

Ev(name) == [e |-> name, h |-> held]

NoCall == [op |-> "none", args |-> <<>>]

\* The address setters, and the member functions that write neither the chip
\* nor the manager.
Setters == {"setMACAddress", "setLocalIP", "setSubnetMask", "setGatewayIP"}
Readers == {"MACAddress", "localIP", "subnetMask", "gatewayIP", "linkStatus",
            "hardwareStatus"}

\* The bring-up entry points, and the record of a completed static bring-up.
BringUps == {"begin_dhcp", "begin_mac_ip", "begin_mac_ip_dns",
             "begin_mac_ip_dns_gateway", "begin_mac_ip_dns_gateway_subnet"}
NoStatic == [ip |-> NoAddr, gw |-> NoAddr, sn |-> NoAddr, dns |-> NoAddr]

Snapshot == [chip |-> chip, dns |-> _dnsServerAddress, dhcp |-> _dhcp, lease |-> lease]

\* A member function is entered: only from "idle" (calls run to completion).
Enter(op, args, locals, first) ==
  /\ pc = "idle"
  /\ call' = [op |-> op, args |-> args]
  /\ loc' = locals
  /\ log' = <<>>
  /\ pre' = Snapshot
  /\ ret' = "none"
  /\ everDhcp' = (everDhcp \/ op = "begin_dhcp")
  /\ lastSetter' = IF op \in Setters THEN [op |-> op, args |-> args]
                   ELSE IF op \in Readers THEN lastSetter
                   ELSE NoCall
  /\ staticCfg' = IF op \in Setters \cup BringUps THEN NoStatic ELSE staticCfg
  /\ pc' = first
  /\ UNCHANGED <<chip, _dnsServerAddress, _dhcp, lease, held, instances, second, committed>>

\* _spibus.beginTransaction(SPI_ETHERNET_SETTINGS): the bus grants exclusive
\* access, so the call waits while the second user holds the bus.
beginTransaction(at, next) ==
  /\ pc = at
  /\ second = "idle"
  /\ held' = held + 1
  /\ log' = Append(log, Ev("beginTransaction"))
  /\ pc' = next
  /\ UNCHANGED <<chip, _dnsServerAddress, _dhcp, lease, call, loc, ret, pre, everDhcp, instances, second, committed, lastSetter, staticCfg>>

\* _spibus.endTransaction()
endTransaction(at, next) ==
  /\ pc = at
  /\ held' = held - 1
  /\ log' = Append(log, Ev("endTransaction"))
  /\ committed' = <<chip.ip, chip.gw, chip.sn>>
  /\ pc' = next
  /\ UNCHANGED <<chip, _dnsServerAddress, _dhcp, lease, call, loc, ret, pre, everDhcp, instances, second, lastSetter, staticCfg>>

\* _w5100.set<reg>(value): one chip-driver register write
chipSet(at, fn, reg, value, next) ==
  /\ pc = at
  /\ chip' = [chip EXCEPT ![reg] = value]
  /\ log' = Append(log, Ev(fn))
  /\ pc' = next
  /\ UNCHANGED <<_dnsServerAddress, _dhcp, lease, held, call, loc, ret, pre, everDhcp, instances, second, committed, lastSetter, staticCfg>>

\* _w5100.get<reg>(buffer): one chip-driver register read into the result
chipGet(at, fn, reg, next) ==
  /\ pc = at
  /\ ret' = chip[reg]
  /\ log' = Append(log, Ev(fn))
  /\ pc' = next
  /\ UNCHANGED <<chip, _dnsServerAddress, _dhcp, lease, held, call, loc, pre, everDhcp, instances, second, committed, lastSetter, staticCfg>>

\* Variant of endTransactionReturn: the function returns without releasing the bus.
returnWithoutEndTransaction(at) ==
  /\ pc = at
  /\ pc' = "idle"
  /\ UNCHANGED <<chip, _dnsServerAddress, _dhcp, lease, held, call, loc, ret, log, pre, everDhcp, instances, second, committed, lastSetter, staticCfg>>

\* endTransaction followed by the function's return
endTransactionReturn(at) == endTransaction(at, "idle")

----------------------------------------------------------------------------
(* EthernetClass::EthernetClass *)

Init ==
  /\ chip = ChipReset
  /\ _dnsServerAddress = ZeroAddr
  /\ _dhcp = NoDhcp
  /\ lease = NoLease
  /\ held = 0
  /\ pc = "idle"
  /\ call = NoCall
  /\ loc = NoLocals
  /\ ret = "none"
  /\ log = <<>>
  /\ pre = [chip |-> ChipReset, dns |-> ZeroAddr, dhcp |-> NoDhcp, lease |-> NoLease]
  /\ everDhcp = FALSE
  /\ instances = 0
  /\ second = "idle"
  /\ committed = <<ZeroAddr, ZeroAddr, ZeroAddr>>
  /\ lastSetter = NoCall
  /\ staticCfg = NoStatic

----------------------------------------------------------------------------
(* Address getters and setters *)

MACAddress ==
  \/ Enter("MACAddress", <<>>, NoLocals, "MACAddress_173")
  \/ beginTransaction("MACAddress_173", "MACAddress_174")
  \/ chipGet("MACAddress_174", "getMACAddress", "mac", "MACAddress_175")
  \/ endTransactionReturn("MACAddress_175")

localIP ==
  \/ Enter("localIP", <<>>, NoLocals, "localIP_181")
  \/ beginTransaction("localIP_181", "localIP_182")
  \/ chipGet("localIP_182", "getIPAddress", "ip", "localIP_183")
  \/ endTransactionReturn("localIP_183")

subnetMask ==
  \/ Enter("subnetMask", <<>>, NoLocals, "subnetMask_190")
  \/ beginTransaction("subnetMask_190", "subnetMask_191")
  \/ chipGet("subnetMask_191", "getSubnetMask", "sn", "subnetMask_192")
  \/ endTransactionReturn("subnetMask_192")

gatewayIP ==
  \/ Enter("gatewayIP", <<>>, NoLocals, "gatewayIP_199")
  \/ beginTransaction("gatewayIP_199", "gatewayIP_200")
  \/ chipGet("gatewayIP_200", "getGatewayIp", "gw", "gatewayIP_201")
  \/ endTransactionReturn("gatewayIP_201")

setMACAddress ==
  \/ \E m \in MACs :
       Enter("setMACAddress", <<m>>, [NoLocals EXCEPT !.mac = m], "setMACAddress_207")
  \/ beginTransaction("setMACAddress_207", "setMACAddress_208")
  \/ chipSet("setMACAddress_208", "setMACAddress", "mac", loc.mac, "setMACAddress_209")
  \/ endTransactionReturn("setMACAddress_209")

setLocalIP ==
  \/ \E a \in SetterAddrs :
       Enter("setLocalIP", <<a>>, [NoLocals EXCEPT !.ip = a], "setLocalIP_214")
  \/ beginTransaction("setLocalIP_214", "setLocalIP_216")
  \/ chipSet("setLocalIP_216", "setIPAddress", "ip", loc.ip, "setLocalIP_217")
  \/ endTransactionReturn("setLocalIP_217")

\* Variant of setSubnetMask: the value is written to the gateway register.
setSubnetMask_writesGateway ==
  \/ \E a \in SetterAddrs :
       Enter("setSubnetMask", <<a>>, [NoLocals EXCEPT !.ip = a], "setSubnetMask_222")
  \/ beginTransaction("setSubnetMask_222", "setSubnetMask_224")
  \/ chipSet("setSubnetMask_224", "setSubnetMask", "gw", loc.ip, "setSubnetMask_225")
  \/ endTransactionReturn("setSubnetMask_225")

setSubnetMask ==
  \/ \E a \in SetterAddrs :
       Enter("setSubnetMask", <<a>>, [NoLocals EXCEPT !.ip = a], "setSubnetMask_222")
  \/ beginTransaction("setSubnetMask_222", "setSubnetMask_224")
  \/ chipSet("setSubnetMask_224", "setSubnetMask", "sn", loc.ip, "setSubnetMask_225")
  \/ endTransactionReturn("setSubnetMask_225")

setGatewayIP ==
  \/ \E a \in SetterAddrs :
       Enter("setGatewayIP", <<a>>, [NoLocals EXCEPT !.ip = a], "setGatewayIP_230")
  \/ beginTransaction("setGatewayIP_230", "setGatewayIP_232")
  \/ chipSet("setGatewayIP_232", "setGatewayIp", "gw", loc.ip, "setGatewayIP_233")
  \/ endTransactionReturn("setGatewayIP_233")

----------------------------------------------------------------------------
(* Bring-up through DHCP: begin(mac, timeout, responseTimeout).  The two     *)
(* timeouts are only handed on to the negotiator and are not modelled.       *)

\* _w5100.init(): 0 when the chip does not respond, 1 otherwise.
InitResults == {0, 1}

\* DhcpClass::beginWithDHCP: 1 with a lease obtained, 0 without.
DhcpResults == {0, 1}

\* line 42: entry
begin_dhcp_call ==
  \E mac \in MACs :
    Enter("begin_dhcp", <<mac>>, [NoLocals EXCEPT !.mac = mac], "begin_44")

\* Variant of begin_dhcp_44: a negotiator is constructed on every bring-up.
begin_dhcp_44_alwaysNew ==
  /\ pc = "begin_44"
  /\ _dhcp' = instances + 1
  /\ instances' = instances + 1
  /\ log' = Append(log, Ev("new DhcpClass"))
  /\ pc' = "begin_49"
  /\ UNCHANGED <<chip, _dnsServerAddress, lease, held, call, loc, ret, pre, everDhcp, second,
                 committed, lastSetter, staticCfg>>

\* lines 44-46: if (!_dhcp) _dhcp = new DhcpClass(*this)
\* The object constructed is identified by its number in order of construction.
begin_dhcp_44 ==
  /\ pc = "begin_44"
  /\ IF _dhcp = NoDhcp
       THEN /\ _dhcp' = instances + 1
            /\ instances' = instances + 1
            /\ log' = Append(log, Ev("new DhcpClass"))
       ELSE UNCHANGED <<_dhcp, instances, log>>
  /\ pc' = "begin_49"
  /\ UNCHANGED <<chip, _dnsServerAddress, lease, held, call, loc, ret, pre, everDhcp, second,
                 committed, lastSetter, staticCfg>>

\* Variant of begin_dhcp_49: the bus is acquired for init() and the early
\* return on failure leaves it acquired.
begin_dhcp_49_acquiredEarlyReturn ==
  /\ pc = "begin_49"
  /\ second = "idle"
  /\ held' = held + 1
  /\ \E r \in InitResults :
       /\ loc' = [loc EXCEPT !.init = r]
       /\ log' = log \o <<[e |-> "beginTransaction", h |-> held],
                          [e |-> "init", h |-> held + 1]>>
       /\ IF r = 0
            THEN /\ ret' = 0
                 /\ pc' = "idle"
            ELSE /\ ret' = ret
                 /\ pc' = "begin_50"
  /\ UNCHANGED <<chip, _dnsServerAddress, _dhcp, lease, call, pre, everDhcp, instances, second, committed, lastSetter, staticCfg>>

\* line 49: if (_w5100.init() == 0) return 0
begin_dhcp_49 ==
  /\ pc = "begin_49"
  /\ \E r \in InitResults :
       /\ loc' = [loc EXCEPT !.init = r]
       /\ log' = Append(log, Ev("init"))
       /\ IF r = 0
            THEN /\ ret' = 0
                 /\ pc' = "idle"
            ELSE /\ ret' = ret
                 /\ pc' = "begin_50"
  /\ UNCHANGED <<chip, _dnsServerAddress, _dhcp, lease, held, call, pre, everDhcp, instances, second, committed, lastSetter, staticCfg>>

\* Variant of begin_dhcp_53: the bus is still held when the negotiation starts.
begin_dhcp_53_noRelease ==
  /\ pc = "begin_53"
  /\ pc' = "begin_56"
  /\ UNCHANGED <<chip, _dnsServerAddress, _dhcp, lease, held, call, loc, ret, log, pre, everDhcp, instances, second, committed, lastSetter, staticCfg>>

\* lines 50-53
begin_dhcp_50 == beginTransaction("begin_50", "begin_51")
begin_dhcp_51 == chipSet("begin_51", "setMACAddress", "mac", loc.mac, "begin_52")
begin_dhcp_52 == chipSet("begin_52", "setIPAddress", "ip", ZeroAddr, "begin_53")
begin_dhcp_53 == endTransaction("begin_53", "begin_56")

\* line 56: int ret = _dhcp->beginWithDHCP(mac, timeout, responseTimeout)
begin_dhcp_56 ==
  /\ pc = "begin_56"
  /\ \E r \in DhcpResults :
       /\ loc' = [loc EXCEPT !.rc = r]
       /\ lease' \in (IF r = 1 THEN Leases ELSE LeaseStates)
  /\ log' = Append(log, Ev("beginWithDHCP"))
  /\ pc' = "begin_57"
  /\ UNCHANGED <<chip, _dnsServerAddress, _dhcp, held, call, ret, pre, everDhcp, instances, second, committed, lastSetter, staticCfg>>

\* Variant of begin_dhcp_57: the negotiator's result is not tested.
begin_dhcp_57_unchecked ==
  /\ pc = "begin_57"
  /\ pc' = "begin_60"
  /\ UNCHANGED <<chip, _dnsServerAddress, _dhcp, lease, held, call, loc, ret, log, pre, everDhcp, instances, second, committed, lastSetter, staticCfg>>

\* line 57: if (ret == 1) ... ; line 68: return ret
begin_dhcp_57 ==
  /\ pc = "begin_57"
  /\ IF loc.rc = 1
       THEN /\ pc' = "begin_60"
            /\ ret' = ret
       ELSE /\ pc' = "idle"
            /\ ret' = loc.rc
  /\ UNCHANGED <<chip, _dnsServerAddress, _dhcp, lease, held, call, loc, log, pre, everDhcp, instances, second, committed, lastSetter, staticCfg>>

\* Variant of begin_dhcp_60: the lease is written without acquiring the bus.
begin_dhcp_60_noAcquire ==
  /\ pc = "begin_60"
  /\ pc' = "begin_61"
  /\ UNCHANGED <<chip, _dnsServerAddress, _dhcp, lease, held, call, loc, ret, log, pre, everDhcp, instances, second, committed, lastSetter, staticCfg>>

\* lines 60-64
begin_dhcp_60 == beginTransaction("begin_60", "begin_61")
begin_dhcp_61 == chipSet("begin_61", "setIPAddress", "ip", lease.ip, "begin_62")
begin_dhcp_62 == chipSet("begin_62", "setGatewayIp", "gw", lease.gw, "begin_63")
begin_dhcp_63 == chipSet("begin_63", "setSubnetMask", "sn", lease.mask, "begin_64")
begin_dhcp_64 == endTransaction("begin_64", "begin_65")

\* Variant of begin_dhcp_65: the DNS server address is not cached.
begin_dhcp_65_noDns ==
  /\ pc = "begin_65"
  /\ log' = Append(log, Ev("socketPortRand"))
  /\ ret' = loc.rc
  /\ pc' = "idle"
  /\ UNCHANGED <<chip, _dnsServerAddress, _dhcp, lease, held, call, loc, pre, everDhcp, instances, second, committed, lastSetter, staticCfg>>

\* lines 65-68: _dnsServerAddress = _dhcp->getDnsServerIp();
\* socketPortRand(micros()); return ret
begin_dhcp_65 ==
  /\ pc = "begin_65"
  /\ _dnsServerAddress' = lease.dns
  /\ log' = Append(log, Ev("socketPortRand"))
  /\ ret' = loc.rc
  /\ pc' = "idle"
  /\ UNCHANGED <<chip, _dhcp, lease, held, call, loc, pre, everDhcp, instances, second, committed, lastSetter, staticCfg>>

begin_dhcp ==
  \/ begin_dhcp_call \/ begin_dhcp_44 \/ begin_dhcp_49 \/ begin_dhcp_50
  \/ begin_dhcp_51 \/ begin_dhcp_52 \/ begin_dhcp_53 \/ begin_dhcp_56
  \/ begin_dhcp_57 \/ begin_dhcp_60 \/ begin_dhcp_61 \/ begin_dhcp_62
  \/ begin_dhcp_63 \/ begin_dhcp_64 \/ begin_dhcp_65

----------------------------------------------------------------------------
(* Bring-up with explicit addresses: the four static overloads.  Each of    *)
(* the three short overloads computes one more argument and calls the next. *)

\* line 95: begin(mac, ip, dns, gateway, subnet) is entered
begin_mac_ip_dns_gateway_subnet(op, args, mac, ip, dns, gateway, subnet) ==
  Enter(op, args,
        [mac |-> mac, ip |-> ip, dns |-> dns, gateway |-> gateway,
         subnet |-> subnet, rc |-> "unset", init |-> -1, milliseconds |-> -1,
         num |-> -1],
        "begin_97")

\* lines 89-93
begin_mac_ip_dns_gateway(op, args, mac, ip, dns, gateway) ==
  begin_mac_ip_dns_gateway_subnet(op, args, mac, ip, dns, gateway, <<255, 255, 255, 0>>)

\* Variant of begin_mac_ip_dns: the gateway is derived from dns, not from ip.
begin_mac_ip_dns_gatewayFromDns(op, args, mac, ip, dns) ==
  begin_mac_ip_dns_gateway(op, args, mac, ip, dns, [dns EXCEPT ![4] = 1])

\* lines 80-87
begin_mac_ip_dns(op, args, mac, ip, dns) ==
  begin_mac_ip_dns_gateway(op, args, mac, ip, dns, [ip EXCEPT ![4] = 1])

\* lines 71-78
begin_mac_ip(op, args, mac, ip) ==
  begin_mac_ip_dns(op, args, mac, ip, [ip EXCEPT ![4] = 1])

\* The application's calls of the four overloads.
begin_static_call_2 ==
  \E mac \in MACs, ip \in StaticIPs :
    begin_mac_ip("begin_mac_ip", <<mac, ip>>, mac, ip)

begin_static_call_3 ==
  \E mac \in MACs, ip \in StaticIPs, dns \in DnsArgs :
    begin_mac_ip_dns("begin_mac_ip_dns", <<mac, ip, dns>>, mac, ip, dns)

begin_static_call_4 ==
  \E mac \in MACs, ip \in StaticIPs, dns \in DnsArgs, gateway \in GatewayArgs :
    begin_mac_ip_dns_gateway("begin_mac_ip_dns_gateway", <<mac, ip, dns, gateway>>,
                             mac, ip, dns, gateway)

begin_static_call_5 ==
  \E mac \in MACs, ip \in StaticIPs, dns \in DnsArgs, gateway \in GatewayArgs,
     subnet \in SubnetArgs :
    begin_mac_ip_dns_gateway_subnet("begin_mac_ip_dns_gateway_subnet",
                                    <<mac, ip, dns, gateway, subnet>>,
                                    mac, ip, dns, gateway, subnet)

\* Variant of begin_static_97: the result of init() is ignored.
begin_static_97_ignoreInit ==
  /\ pc = "begin_97"
  /\ \E r \in InitResults :
       /\ loc' = [loc EXCEPT !.init = r]
       /\ log' = Append(log, Ev("init"))
       /\ pc' = "begin_98"
  /\ UNCHANGED <<chip, _dnsServerAddress, _dhcp, lease, held, call, ret, pre, everDhcp, instances, second, committed, lastSetter, staticCfg>>

\* line 97: if (_w5100.init() == 0) return
begin_static_97 ==
  /\ pc = "begin_97"
  /\ \E r \in InitResults :
       /\ loc' = [loc EXCEPT !.init = r]
       /\ log' = Append(log, Ev("init"))
       /\ pc' = IF r = 0 THEN "idle" ELSE "begin_98"
  /\ UNCHANGED <<chip, _dnsServerAddress, _dhcp, lease, held, call, ret, pre, everDhcp, instances, second, committed, lastSetter, staticCfg>>

\* lines 98-113
begin_static_98 == beginTransaction("begin_98", "begin_99")
begin_static_99 == chipSet("begin_99", "setMACAddress", "mac", loc.mac, "begin_105")
begin_static_105 == chipSet("begin_105", "setIPAddress", "ip", loc.ip, "begin_106")
begin_static_106 == chipSet("begin_106", "setGatewayIp", "gw", loc.gateway, "begin_107")
begin_static_107 == chipSet("begin_107", "setSubnetMask", "sn", loc.subnet, "begin_113")
begin_static_113 == endTransaction("begin_113", "begin_114")

\* Variant of begin_static_114: the DNS server address is taken from the gateway.
begin_static_114_dnsFromGateway ==
  /\ pc = "begin_114"
  /\ _dnsServerAddress' = loc.gateway
  /\ staticCfg' = [ip |-> loc.ip, gw |-> loc.gateway, sn |-> loc.subnet, dns |-> loc.dns]
  /\ pc' = "idle"
  /\ UNCHANGED <<chip, _dhcp, lease, held, call, loc, ret, log, pre, everDhcp, instances, second, committed, lastSetter>>

\* line 114: _dnsServerAddress = dns
begin_static_114 ==
  /\ pc = "begin_114"
  /\ _dnsServerAddress' = loc.dns
  /\ staticCfg' = [ip |-> loc.ip, gw |-> loc.gateway, sn |-> loc.subnet, dns |-> loc.dns]
  /\ pc' = "idle"
  /\ UNCHANGED <<chip, _dhcp, lease, held, call, loc, ret, log, pre, everDhcp, instances, second, committed, lastSetter>>

begin_static ==
  \/ begin_static_call_2 \/ begin_static_call_3 \/ begin_static_call_4
  \/ begin_static_call_5 \/ begin_static_97 \/ begin_static_98
  \/ begin_static_99 \/ begin_static_105 \/ begin_static_106
  \/ begin_static_107 \/ begin_static_113 \/ begin_static_114

StaticOps == {"begin_mac_ip", "begin_mac_ip_dns", "begin_mac_ip_dns_gateway",
              "begin_mac_ip_dns_gateway_subnet"}

----------------------------------------------------------------------------
(* linkStatus and hardwareStatus *)

\* Variant of linkStatus_switch: the LINK_ON and LINK_OFF results swapped.
linkStatus_switch_swapped(code) ==
  CASE code = "UNKNOWN" -> "Unknown"
    [] code = "LINK_ON" -> "LinkOFF"
    [] code = "LINK_OFF" -> "LinkON"
    [] OTHER -> "Unknown"

\* lines 124-129: the switch on the driver's link state
linkStatus_switch(code) ==
  CASE code = "UNKNOWN" -> "Unknown"
    [] code = "LINK_ON" -> "LinkON"
    [] code = "LINK_OFF" -> "LinkOFF"
    [] OTHER -> "Unknown"

linkStatus_call == Enter("linkStatus", <<>>, NoLocals, "linkStatus_124")

\* line 124: switch (_w5100.getLinkStatus())
linkStatus_124 ==
  /\ pc = "linkStatus_124"
  /\ \E code \in LinkCodes :
       /\ loc' = [loc EXCEPT !.rc = code]
       /\ ret' = linkStatus_switch(code)
  /\ log' = Append(log, Ev("getLinkStatus"))
  /\ pc' = "idle"
  /\ UNCHANGED <<chip, _dnsServerAddress, _dhcp, lease, held, call, pre, everDhcp, instances, second, committed, lastSetter, staticCfg>>

linkStatus == linkStatus_call \/ linkStatus_124

\* Variant of hardwareStatus_switch: the case labels read as hexadecimal.
hardwareStatus_switch_hex(code) ==
  CASE code = 81 -> "EthernetW5100"
    [] code = 82 -> "EthernetW5200"
    [] code = 85 -> "EthernetW5500"
    [] OTHER -> "EthernetNoHardware"

\* lines 134-139: the switch on the driver's chip code
hardwareStatus_switch(code) ==
  CASE code = 51 -> "EthernetW5100"
    [] code = 52 -> "EthernetW5200"
    [] code = 55 -> "EthernetW5500"
    [] OTHER -> "EthernetNoHardware"

hardwareStatus_call == Enter("hardwareStatus", <<>>, NoLocals, "hardwareStatus_134")

\* line 134: switch (_w5100.getChip())
hardwareStatus_134 ==
  /\ pc = "hardwareStatus_134"
  /\ \E code \in ChipCodes :
       /\ loc' = [loc EXCEPT !.rc = code]
       /\ ret' = hardwareStatus_switch(code)
  /\ log' = Append(log, Ev("getChip"))
  /\ pc' = "idle"
  /\ UNCHANGED <<chip, _dnsServerAddress, _dhcp, lease, held, call, pre, everDhcp, instances, second, committed, lastSetter, staticCfg>>

hardwareStatus == hardwareStatus_call \/ hardwareStatus_134

----------------------------------------------------------------------------
(* maintain *)

\* lines 142-144: entry, int rc = DHCP_CHECK_NONE
maintain_call ==
  Enter("maintain", <<>>, [NoLocals EXCEPT !.rc = "DHCP_CHECK_NONE"], "maintain_145")

\* Variant of maintain_145: the negotiator is used without the null test.
maintain_145_noNullTest ==
  /\ pc = "maintain_145"
  /\ pc' = "maintain_147"
  /\ UNCHANGED <<chip, _dnsServerAddress, _dhcp, lease, held, call, loc, ret, log, pre, everDhcp, instances, second, committed, lastSetter, staticCfg>>

\* line 145: if (_dhcp != NULL)
maintain_145 ==
  /\ pc = "maintain_145"
  /\ pc' = IF _dhcp # NoDhcp THEN "maintain_147" ELSE "maintain_167"
  /\ UNCHANGED <<chip, _dnsServerAddress, _dhcp, lease, held, call, loc, ret, log, pre, everDhcp, instances, second, committed, lastSetter, staticCfg>>

\* line 147: rc = _dhcp->checkLease()
maintain_147 ==
  /\ pc = "maintain_147"
  /\ \E code \in CheckCodes :
       /\ loc' = [loc EXCEPT !.rc = code]
       /\ lease' \in (IF code \in {"DHCP_CHECK_RENEW_OK", "DHCP_CHECK_REBIND_OK"}
                        THEN Leases ELSE LeaseStates)
  /\ log' = Append(log, Ev("checkLease"))
  /\ pc' = "maintain_148"
  /\ UNCHANGED <<chip, _dnsServerAddress, _dhcp, held, call, ret, pre, everDhcp, instances, second, committed, lastSetter, staticCfg>>

\* Variant of maintain_148: the case label DHCP_CHECK_REBIND_OK is missing.
maintain_148_renewOnly ==
  /\ pc = "maintain_148"
  /\ pc' = CASE loc.rc = "DHCP_CHECK_NONE" -> "maintain_167"
             [] loc.rc = "DHCP_CHECK_RENEW_OK" -> "maintain_155"
             [] OTHER -> "maintain_167"
  /\ UNCHANGED <<chip, _dnsServerAddress, _dhcp, lease, held, call, loc, ret, log, pre, everDhcp, instances, second, committed, lastSetter, staticCfg>>

\* Variant of maintain_148: an error code makes maintain() check the lease again.
maintain_148_retry ==
  /\ pc = "maintain_148"
  /\ pc' = CASE loc.rc = "DHCP_CHECK_NONE" -> "maintain_167"
             [] loc.rc \in {"DHCP_CHECK_RENEW_OK", "DHCP_CHECK_REBIND_OK"} -> "maintain_155"
             [] OTHER -> "maintain_147"
  /\ UNCHANGED <<chip, _dnsServerAddress, _dhcp, lease, held, call, loc, ret, log, pre, everDhcp, instances, second, committed, lastSetter, staticCfg>>

\* lines 148-165: switch (rc)
maintain_148 ==
  /\ pc = "maintain_148"
  /\ pc' = CASE loc.rc = "DHCP_CHECK_NONE" -> "maintain_167"
             [] loc.rc \in {"DHCP_CHECK_RENEW_OK", "DHCP_CHECK_REBIND_OK"} -> "maintain_155"
             [] OTHER -> "maintain_167"
  /\ UNCHANGED <<chip, _dnsServerAddress, _dhcp, lease, held, call, loc, ret, log, pre, everDhcp, instances, second, committed, lastSetter, staticCfg>>

\* Variant of maintain_155: the bus is not acquired before the republish.
maintain_155_noAcquire ==
  /\ pc = "maintain_155"
  /\ pc' = "maintain_156"
  /\ UNCHANGED <<chip, _dnsServerAddress, _dhcp, lease, held, call, loc, ret, log, pre, everDhcp, instances, second, committed, lastSetter, staticCfg>>

\* lines 155-159
maintain_155 == beginTransaction("maintain_155", "maintain_156")
maintain_156 == chipSet("maintain_156", "setIPAddress", "ip", lease.ip, "maintain_157")
maintain_157 == chipSet("maintain_157", "setGatewayIp", "gw", lease.gw, "maintain_158")
maintain_158 == chipSet("maintain_158", "setSubnetMask", "sn", lease.mask, "maintain_159")
maintain_159 == endTransaction("maintain_159", "maintain_160")

\* lines 160-161: _dnsServerAddress = _dhcp->getDnsServerIp(); break
maintain_160 ==
  /\ pc = "maintain_160"
  /\ _dnsServerAddress' = lease.dns
  /\ pc' = "maintain_167"
  /\ UNCHANGED <<chip, _dhcp, lease, held, call, loc, ret, log, pre, everDhcp, instances, second, committed, lastSetter, staticCfg>>

\* line 167: return rc
maintain_167 ==
  /\ pc = "maintain_167"
  /\ ret' = loc.rc
  /\ pc' = "idle"
  /\ UNCHANGED <<chip, _dnsServerAddress, _dhcp, lease, held, call, loc, log, pre, everDhcp, instances, second, committed, lastSetter, staticCfg>>

maintain ==
  \/ maintain_call \/ maintain_145 \/ maintain_147 \/ maintain_148
  \/ maintain_155 \/ maintain_156 \/ maintain_157 \/ maintain_158
  \/ maintain_159 \/ maintain_160 \/ maintain_167

----------------------------------------------------------------------------
(* Retransmission tuning *)

\* line 236: setRetransmissionTimeout(milliseconds) is entered
setRetransmissionTimeout_call(ms) ==
  Enter("setRetransmissionTimeout", <<ms>>, [NoLocals EXCEPT !.milliseconds = ms],
        "setRetransmissionTimeout_238")

\* Variant of setRetransmissionTimeout_238: the clamp is off by one.
setRetransmissionTimeout_238_clamp6554 ==
  /\ pc = "setRetransmissionTimeout_238"
  /\ loc' = IF loc.milliseconds > 6554
              THEN [loc EXCEPT !.milliseconds = 6554] ELSE loc
  /\ pc' = "setRetransmissionTimeout_239"
  /\ UNCHANGED <<chip, _dnsServerAddress, _dhcp, lease, held, call, ret, log, pre, everDhcp, instances, second, committed, lastSetter, staticCfg>>

\* line 238: if (milliseconds > 6553) milliseconds = 6553
setRetransmissionTimeout_238 ==
  /\ pc = "setRetransmissionTimeout_238"
  /\ loc' = IF loc.milliseconds > 6553
              THEN [loc EXCEPT !.milliseconds = 6553] ELSE loc
  /\ pc' = "setRetransmissionTimeout_239"
  /\ UNCHANGED <<chip, _dnsServerAddress, _dhcp, lease, held, call, ret, log, pre, everDhcp, instances, second, committed, lastSetter, staticCfg>>

\* lines 239-241
setRetransmissionTimeout_239 ==
  beginTransaction("setRetransmissionTimeout_239", "setRetransmissionTimeout_240")
setRetransmissionTimeout_240 ==
  chipSet("setRetransmissionTimeout_240", "setRetransmissionTime", "rtr",
          ToUint16(loc.milliseconds * 10), "setRetransmissionTimeout_241")
setRetransmissionTimeout_241 == endTransactionReturn("setRetransmissionTimeout_241")

setRetransmissionTimeout_body ==
  \/ setRetransmissionTimeout_238 \/ setRetransmissionTimeout_239
  \/ setRetransmissionTimeout_240 \/ setRetransmissionTimeout_241

setRetransmissionTimeout ==
  \/ \E ms \in TimeoutArgs : setRetransmissionTimeout_call(ms)
  \/ setRetransmissionTimeout_body

\* lines 244-249
setRetransmissionCount ==
  \/ \E n \in CountArgs :
       Enter("setRetransmissionCount", <<n>>, [NoLocals EXCEPT !.num = n],
             "setRetransmissionCount_246")
  \/ beginTransaction("setRetransmissionCount_246", "setRetransmissionCount_247")
  \/ chipSet("setRetransmissionCount_247", "setRetransmissionCount", "rcr", loc.num,
             "setRetransmissionCount_248")
  \/ endTransactionReturn("setRetransmissionCount_248")

----------------------------------------------------------------------------
Next ==
  \/ begin_dhcp \/ begin_static \/ linkStatus \/ hardwareStatus \/ maintain
  \/ MACAddress \/ localIP \/ subnetMask \/ gatewayIP
  \/ setMACAddress \/ setLocalIP \/ setSubnetMask \/ setGatewayIP
  \/ setRetransmissionTimeout \/ setRetransmissionCount

Spec == Init /\ [][Next]_vars

----------------------------------------------------------------------------
(* A second user of the same SPI bus, which touches the chip only inside    *)
(* its own bus transaction.  The bus grants it access only while the        *)
(* manager holds none.                                                      *)

second_beginTransaction ==
  /\ second = "idle"
  /\ held = 0
  /\ second' = "holding"
  /\ UNCHANGED <<chip, _dnsServerAddress, _dhcp, lease, held, pc, call, loc, ret, log,
                 pre, everDhcp, instances, committed, lastSetter, staticCfg>>

second_endTransaction ==
  /\ second = "holding"
  /\ second' = "idle"
  /\ UNCHANGED <<chip, _dnsServerAddress, _dhcp, lease, held, pc, call, loc, ret, log,
                 pre, everDhcp, instances, committed, lastSetter, staticCfg>>

NextConcurrent == Next \/ second_beginTransaction \/ second_endTransaction

SpecConcurrent == Init /\ [][NextConcurrent]_vars

----------------------------------------------------------------------------
\* A newly constructed manager on which setRetransmissionTimeout has just
\* been entered with any value of its uint16_t parameter, and which then runs
\* that call to its return.
InitRetransmission ==
  \E ms \in Uint16 :
    /\ chip = ChipReset
    /\ _dnsServerAddress = ZeroAddr
    /\ _dhcp = NoDhcp
    /\ lease = NoLease
    /\ held = 0
    /\ pc = "setRetransmissionTimeout_238"
    /\ call = [op |-> "setRetransmissionTimeout", args |-> <<ms>>]
    /\ loc = [NoLocals EXCEPT !.milliseconds = ms]
    /\ ret = "none"
    /\ log = <<>>
    /\ pre = [chip |-> ChipReset, dns |-> ZeroAddr, dhcp |-> NoDhcp, lease |-> NoLease]
    /\ everDhcp = FALSE
  /\ instances = 0
  /\ second = "idle"
  /\ committed = <<ZeroAddr, ZeroAddr, ZeroAddr>>
  /\ lastSetter = NoCall
  /\ staticCfg = NoStatic

NextRetransmission == setRetransmissionTimeout_body

SpecRetransmission == InitRetransmission /\ [][NextRetransmission]_vars

----------------------------------------------------------------------------
(* Vocabulary of the properties *)

Returned(op) == pc = "idle" /\ call.op = op

Count(name) == Cardinality({i \in DOMAIN log : log[i].e = name})

Names(events) == [i \in DOMAIN events |-> events[i].e]

\* The events of the current call after its n-th.
After(n) == SubSeq(log, n + 1, Len(log))

Acquire == [e |-> "beginTransaction", h |-> 0]
Release == [e |-> "endTransaction", h |-> 1]
Held(name) == [e |-> name, h |-> 1]
Unheld(name) == [e |-> name, h |-> 0]

RegisterCalls == {"setMACAddress", "setIPAddress", "setGatewayIp", "setSubnetMask",
                  "getMACAddress", "getIPAddress", "getGatewayIp", "getSubnetMask"}
RegisterWrites == {"setMACAddress", "setIPAddress", "setGatewayIp", "setSubnetMask"}
SelfBracketedCalls == {"init", "getLinkStatus", "getChip"}
ChipDriverCalls == RegisterCalls \cup SelfBracketedCalls
NegotiatorCalls == {"beginWithDHCP", "checkLease"}

Accessors == {"MACAddress", "localIP", "subnetMask", "gatewayIP",
              "setMACAddress", "setLocalIP", "setSubnetMask", "setGatewayIP"}

DriverCallOf(op) ==
  CASE op = "MACAddress" -> "getMACAddress"
    [] op = "localIP" -> "getIPAddress"
    [] op = "subnetMask" -> "getSubnetMask"
    [] op = "gatewayIP" -> "getGatewayIp"
    [] op = "setMACAddress" -> "setMACAddress"
    [] op = "setLocalIP" -> "setIPAddress"
    [] op = "setSubnetMask" -> "setSubnetMask"
    [] op = "setGatewayIP" -> "setGatewayIp"

LastOctetOne(a) == <<a[1], a[2], a[3], 1>>

RenewedOrRebound == {"DHCP_CHECK_RENEW_OK", "DHCP_CHECK_REBIND_OK"}

----------------------------------------------------------------------------
\* C1: every address getter and setter makes exactly one bus acquire, then
\* exactly one chip-driver call while the bus is held, then exactly one bus
\* release; during the call the bus is never acquired twice and on return no
\* acquisition is left open.
Thm_C1_AccessorBracket ==
  call.op \in Accessors =>
    /\ held \in {0, 1}
    /\ Count("beginTransaction") <= 1
    /\ Count("endTransaction") <= Count("beginTransaction")
    /\ pc = "idle" =>
         /\ log = <<Acquire, Held(DriverCallOf(call.op)), Release>>
         /\ held = 0

Wit_C1_AccessorBracket ==
  /\ Returned("setGatewayIP")
  /\ Len(log) = 3
  /\ chip.gw \in SetterAddrs

\* C2 as stated: every chip-driver call of the manager, chip init and the
\* link-state and chip-identity queries included, is issued while the manager
\* holds the bus.
Cex_C2_EveryDriverCallHeld ==
  \A i \in DOMAIN log : log[i].e \in ChipDriverCalls => log[i].h >= 1

\* C2 amended: every chip register get/set call of the manager is issued
\* while the manager holds exactly one bus acquisition, made earlier in the
\* same call and not yet released; chip init (both bring-up paths), the
\* link-state query and the chip-identity query are issued with no manager
\* acquisition held.
Thm_C2_RegisterCallsHeld ==
  \A i \in DOMAIN log :
    /\ log[i].e \in RegisterCalls =>
         /\ log[i].h = 1
         /\ \E j \in 1..(i - 1) :
              /\ log[j] = Acquire
              /\ \A k \in (j + 1)..(i - 1) : log[k].e # "endTransaction"
    /\ log[i].e \in SelfBracketedCalls => log[i].h = 0

Wit_C2_RegisterCallsHeld ==
  /\ Returned("maintain")
  /\ Count("setSubnetMask") = 1
  /\ held = 0

\* C3: a static bring-up with (mac, A) resolves dns and gateway to A with its
\* fourth octet replaced by 1 and subnet to 255.255.255.0; with (mac, A, dns)
\* it keeps dns and still derives the gateway from A; with (mac, A, dns,
\* gateway) it keeps both and uses subnet 255.255.255.0.  The resolved values
\* are what the five-argument overload receives, and once it has passed chip
\* init and returned, the chip holds A, the resolved gateway and subnet, and
\* the cached DNS address is the resolved dns.
Thm_C3_StaticDefaults ==
  call.op \in {"begin_mac_ip", "begin_mac_ip_dns", "begin_mac_ip_dns_gateway"} =>
    LET A == call.args[2]
        dns == IF call.op = "begin_mac_ip" THEN LastOctetOne(A) ELSE call.args[3]
        gateway == IF call.op = "begin_mac_ip_dns_gateway"
                     THEN call.args[4] ELSE LastOctetOne(A)
    IN  /\ loc.ip = A
        /\ loc.dns = dns
        /\ loc.gateway = gateway
        /\ loc.subnet = <<255, 255, 255, 0>>
        /\ (pc = "idle" /\ loc.init = 1) =>
             /\ chip.ip = A
             /\ chip.gw = gateway
             /\ chip.sn = <<255, 255, 255, 0>>
             /\ _dnsServerAddress = dns
             /\ call.op = "begin_mac_ip" =>
                  \A k \in 1..3 : chip.gw[k] = A[k] /\ _dnsServerAddress[k] = A[k]
             /\ call.op = "begin_mac_ip_dns" =>
                  \A k \in 1..3 : chip.gw[k] = A[k]

Wit_C3_StaticDefaults ==
  /\ Returned("begin_mac_ip_dns")
  /\ loc.init = 1
  /\ call.args[2] = <<192, 168, 2, 50>>
  /\ chip.gw = <<192, 168, 2, 1>>
  /\ _dnsServerAddress = <<8, 8, 4, 4>>
  /\ chip.sn = <<255, 255, 255, 0>>

\* C4: when the DHCP bring-up returns after chip init succeeded and the
\* negotiator reported success with a lease, it returns 1, the chip holds the
\* supplied MAC and the lease's local address, gateway and subnet, the cached
\* DNS address is the lease's, and the three lease addresses were written
\* inside one bus acquisition made after the negotiation.
Thm_C4_DhcpSuccess ==
  (Returned("begin_dhcp") /\ Count("beginWithDHCP") = 1 /\ loc.rc = 1) =>
    /\ loc.init = 1
    /\ ret = 1
    /\ chip = [pre.chip EXCEPT !.mac = call.args[1], !.ip = lease.ip,
                                !.gw = lease.gw, !.sn = lease.mask]
    /\ _dnsServerAddress = lease.dns
    /\ lease \in Leases
    /\ \E n \in DOMAIN log :
         /\ log[n] = Unheld("beginWithDHCP")
         /\ After(n) = <<Acquire, Held("setIPAddress"), Held("setGatewayIp"),
                         Held("setSubnetMask"), Release, Unheld("socketPortRand")>>
    /\ held = 0

Wit_C4_DhcpSuccess ==
  /\ Returned("begin_dhcp")
  /\ ret = 1
  /\ chip.ip = <<10, 0, 0, 5>>
  /\ chip.gw = <<10, 0, 0, 1>>
  /\ chip.sn = <<255, 255, 255, 0>>
  /\ _dnsServerAddress = <<8, 8, 8, 8>>
  /\ chip.mac \in MACs

\* C5: when the DHCP bring-up returns after chip init succeeded and the
\* negotiator reported failure, it returns the negotiator's code, the
\* negotiator call is the last external call it made (no register write
\* follows it), the chip's local address is 0.0.0.0, the gateway and subnet
\* registers and the cached DNS address are as at entry.
Thm_C5_DhcpFailure ==
  (Returned("begin_dhcp") /\ Count("beginWithDHCP") = 1 /\ loc.rc # 1) =>
    /\ ret = loc.rc
    /\ ret = 0
    /\ log[Len(log)] = Unheld("beginWithDHCP")
    /\ chip.ip = ZeroAddr
    /\ chip = [pre.chip EXCEPT !.mac = call.args[1], !.ip = ZeroAddr]
    /\ _dnsServerAddress = pre.dns
    /\ held = 0

\* ... reached after an earlier successful DHCP bring-up.
Wit_C5_DhcpFailure ==
  /\ Returned("begin_dhcp")
  /\ Count("beginWithDHCP") = 1
  /\ ret = 0
  /\ pre.chip.ip = <<10, 0, 0, 9>>
  /\ pre.dns = <<1, 1, 1, 1>>
  /\ _dnsServerAddress = <<1, 1, 1, 1>>
  /\ chip.ip = ZeroAddr

\* C6: when chip init fails, either bring-up path has returned with no bus
\* acquisition, no register call and no negotiator call made, the chip
\* registers and the cached DNS address as at entry, and the DHCP path has
\* returned 0.
Thm_C6_InitFailure ==
  (call.op \in StaticOps \cup {"begin_dhcp"} /\ loc.init = 0) =>
    /\ pc = "idle"
    /\ held = 0
    /\ \A i \in DOMAIN log :
         log[i].e \notin RegisterCalls \cup NegotiatorCalls
                         \cup {"beginTransaction", "endTransaction"}
    /\ chip = pre.chip
    /\ _dnsServerAddress = pre.dns
    /\ call.op = "begin_dhcp" => ret = 0

Wit_C6_InitFailure ==
  /\ Returned("begin_mac_ip")
  /\ loc.init = 0
  /\ chip.ip = <<10, 0, 0, 5>>
  /\ _dnsServerAddress = <<8, 8, 8, 8>>

\* C7: a maintain() call on a manager whose DHCP bring-up was never called
\* makes no bus, chip-driver or negotiator call, leaves the chip registers and
\* the cached DNS address as at entry and returns DHCP_CHECK_NONE.
Thm_C7_MaintainNoDhcp ==
  (call.op = "maintain" /\ ~everDhcp) =>
    /\ log = <<>>
    /\ held = 0
    /\ chip = pre.chip
    /\ _dnsServerAddress = pre.dns
    /\ pc = "idle" => ret = "DHCP_CHECK_NONE"

\* ... reached after a static bring-up and a setter.
Wit_C7_MaintainNoDhcp ==
  /\ Returned("maintain")
  /\ ~everDhcp
  /\ ret = "DHCP_CHECK_NONE"
  /\ chip.ip \in StaticIPs
  /\ chip.gw \in SetterAddrs

\* C8: in maintain() with checkLease reporting renewed or rebound, the chip
\* registers and the cached DNS address stay as at entry until the bus is
\* acquired after the lease check; on return the call has made exactly the
\* lease check followed by one bus acquisition holding the writes of the
\* negotiator's local address, gateway and subnet, the registers and the
\* cached DNS address hold the negotiator's values, and the reported code is
\* returned.
Thm_C8_MaintainRepublish ==
  call.op = "maintain" =>
    /\ pc \in {"maintain_145", "maintain_147", "maintain_148", "maintain_155"} =>
         chip = pre.chip /\ _dnsServerAddress = pre.dns
    /\ (pc = "idle" /\ pre.dhcp # NoDhcp /\ loc.rc \in RenewedOrRebound) =>
         /\ log = <<Unheld("checkLease"), Acquire, Held("setIPAddress"),
                    Held("setGatewayIp"), Held("setSubnetMask"), Release>>
         /\ chip = [pre.chip EXCEPT !.ip = lease.ip, !.gw = lease.gw,
                                     !.sn = lease.mask]
         /\ _dnsServerAddress = lease.dns
         /\ ret = loc.rc
         /\ held = 0

Wit_C8_MaintainRepublish ==
  /\ Returned("maintain")
  /\ ret = "DHCP_CHECK_REBIND_OK"
  /\ pre.chip.ip = <<10, 0, 0, 5>>
  /\ chip.ip = <<10, 0, 0, 9>>
  /\ chip.gw = <<10, 0, 0, 254>>
  /\ _dnsServerAddress = <<1, 1, 1, 1>>

\* C9: in maintain() with a negotiator present and checkLease reporting
\* anything but renewed or rebound, the lease check is the only external call
\* made (once, no bus acquisition, no register write), the chip registers and
\* the cached DNS address are as at entry, and the reported code is returned.
Thm_C9_MaintainNoRepublish ==
  (call.op = "maintain" /\ pre.dhcp # NoDhcp /\ Count("checkLease") >= 1
     /\ loc.rc \notin RenewedOrRebound) =>
    /\ log = <<Unheld("checkLease")>>
    /\ held = 0
    /\ chip = pre.chip
    /\ _dnsServerAddress = pre.dns
    /\ pc = "idle" => ret = loc.rc

Wit_C9_MaintainNoRepublish ==
  /\ Returned("maintain")
  /\ ret = "DHCP_CHECK_REBIND_FAIL"
  /\ lease # pre.lease
  /\ chip.ip = <<10, 0, 0, 5>>

\* C10 as stated: hardwareStatus() maps the codes 0x51, 0x52, 0x55 to W5100,
\* W5200, W5500 and every other code to EthernetNoHardware.
Cex_C10_HexCodes ==
  Returned("hardwareStatus") =>
    ret = CASE loc.rc = 5 * 16 + 1 -> "EthernetW5100"
            [] loc.rc = 5 * 16 + 2 -> "EthernetW5200"
            [] loc.rc = 5 * 16 + 5 -> "EthernetW5500"
            [] OTHER -> "EthernetNoHardware"

\* C10 amended: hardwareStatus() maps the decimal codes 51, 52, 55 to W5100,
\* W5200, W5500 and every other code, 0x51, 0x52 and 0x55 included, to
\* EthernetNoHardware.
Thm_C10_DecimalCodes ==
  Returned("hardwareStatus") =>
    /\ loc.rc = 51 => ret = "EthernetW5100"
    /\ loc.rc = 52 => ret = "EthernetW5200"
    /\ loc.rc = 55 => ret = "EthernetW5500"
    /\ loc.rc \notin {51, 52, 55} => ret = "EthernetNoHardware"

Wit_C10_DecimalCodes ==
  /\ Returned("hardwareStatus")
  /\ loc.rc = 5 * 16 + 1
  /\ ret = "EthernetNoHardware"

\* C11: linkStatus() returns LinkON exactly when the driver reports LINK_ON,
\* LinkOFF exactly when it reports LINK_OFF and Unknown for every other
\* reported value, the driver's UNKNOWN included; it makes the one driver
\* query and changes no chip register and not the cached DNS address.
Thm_C11_LinkStatus ==
  Returned("linkStatus") =>
    /\ ret = "LinkON" <=> loc.rc = "LINK_ON"
    /\ ret = "LinkOFF" <=> loc.rc = "LINK_OFF"
    /\ ret = "Unknown" <=> loc.rc \notin {"LINK_ON", "LINK_OFF"}
    /\ ret \in {"LinkON", "LinkOFF", "Unknown"}
    /\ Names(log) = <<"getLinkStatus">>
    /\ chip = pre.chip
    /\ _dnsServerAddress = pre.dns

Wit_C11_LinkStatus ==
  /\ Returned("linkStatus")
  /\ loc.rc = "OTHER"
  /\ ret = "Unknown"
  /\ chip.ip = <<10, 0, 0, 5>>

\* C12: for every uint16_t input x, setRetransmissionTimeout(x) stores
\* min(x, 6553) * 10 in the 16-bit retransmission-time register; that value
\* is at most 65535, so the conversion to 16 bits does not wrap (0 stores 0,
\* 7000 stores 65530); the one write is made inside one bus acquisition and
\* no other register changes.
Thm_C12_RetransmissionTimeout ==
  Returned("setRetransmissionTimeout") =>
    LET x == call.args[1]
        clamped == IF x < 6553 THEN x ELSE 6553
    IN  /\ x \in Uint16
        /\ chip.rtr = clamped * 10
        /\ chip.rtr <= 65535
        /\ x = 0 => chip.rtr = 0
        /\ x = 7000 => chip.rtr = 65530
        /\ log = <<Acquire, Held("setRetransmissionTime"), Release>>
        /\ chip = [pre.chip EXCEPT !.rtr = clamped * 10]
        /\ held = 0

Wit_C12_RetransmissionTimeout ==
  /\ Returned("setRetransmissionTimeout")
  /\ call.args[1] = 7000
  /\ chip.rtr = 65530

\* C13: at most one negotiator is ever constructed; none exists before the
\* first DHCP bring-up call; once one exists, _dhcp designates that same
\* object in every later state, so every later DHCP bring-up and maintain()
\* uses it; no call other than the DHCP bring-up constructs one, and no call
\* replaces or destroys it.
Thm_C13_OneNegotiator ==
  /\ instances <= 1
  /\ _dhcp = instances
  /\ ~everDhcp => _dhcp = NoDhcp
  /\ pre.dhcp # NoDhcp => _dhcp = pre.dhcp /\ Count("new DhcpClass") = 0
  /\ call.op # "begin_dhcp" => _dhcp = pre.dhcp /\ Count("new DhcpClass") = 0
  /\ (everDhcp /\ pc \notin {"idle", "begin_44"}) => _dhcp = 1
  /\ (Count("beginWithDHCP") > 0 \/ Count("checkLease") > 0) => _dhcp = 1

\* ... a second DHCP bring-up has returned.
Wit_C13_OneNegotiator ==
  /\ Returned("begin_dhcp")
  /\ pre.dhcp = 1
  /\ _dhcp = 1
  /\ instances = 1
  /\ Count("beginWithDHCP") = 1

\* C14: a static bring-up (any of the four overloads) never calls or
\* constructs a negotiator; when chip init succeeds, on return it has made,
\* after init, exactly one bus acquisition holding the writes of MAC, local
\* address, gateway and subnet, the registers hold the resolved arguments and
\* the cached DNS address is the resolved dns.
Thm_C14_StaticBringUp ==
  call.op \in StaticOps =>
    /\ \A i \in DOMAIN log : log[i].e \notin NegotiatorCalls \cup {"new DhcpClass"}
    /\ _dhcp = pre.dhcp
    /\ lease = pre.lease
    /\ (pc = "idle" /\ loc.init = 1) =>
         /\ log = <<Unheld("init"), Acquire, Held("setMACAddress"),
                    Held("setIPAddress"), Held("setGatewayIp"),
                    Held("setSubnetMask"), Release>>
         /\ chip = [pre.chip EXCEPT !.mac = call.args[1], !.ip = call.args[2],
                                     !.gw = loc.gateway, !.sn = loc.subnet]
         /\ _dnsServerAddress = loc.dns
         /\ Len(call.args) >= 3 => _dnsServerAddress = call.args[3]
         /\ Len(call.args) >= 4 => chip.gw = call.args[4]
         /\ Len(call.args) = 5 => chip.sn = call.args[5]
         /\ held = 0

\* ... the five-argument overload, after a DHCP bring-up on the same manager.
Wit_C14_StaticBringUp ==
  /\ Returned("begin_mac_ip_dns_gateway_subnet")
  /\ loc.init = 1
  /\ pre.dhcp = 1
  /\ chip.ip \in StaticIPs
  /\ chip.gw \in GatewayArgs
  /\ chip.sn \in SubnetArgs
  /\ _dnsServerAddress \in DnsArgs

\* C15: with the bus granting exclusive access, whenever the second user
\* holds the bus the manager is outside its bus transactions and the chip's
\* (local address, gateway, subnet) is what the manager's last completed
\* transaction left as a whole; while a republish (bring-up or maintain) has
\* written the local address but not yet the subnet, the second user does
\* not hold the bus.
Thm_C15_RepublishAtomic ==
  /\ second = "holding" =>
       /\ held = 0
       /\ <<chip.ip, chip.gw, chip.sn>> = committed
  /\ pc \in {"begin_62", "begin_63", "begin_64", "begin_106", "begin_107", "begin_113",
             "maintain_157", "maintain_158", "maintain_159"} => second = "idle"

\* ... the second user holds the bus while maintain() waits to republish a
\* lease that differs from the chip's registers.
Wit_C15_RepublishAtomic ==
  /\ second = "holding"
  /\ pc = "maintain_155"
  /\ chip.ip = <<10, 0, 0, 5>>
  /\ lease.ip = <<10, 0, 0, 9>>

\* C16: whenever the manager is about to call, or has called, the
\* negotiator's beginWithDHCP or checkLease, it holds no bus acquisition: a
\* negotiator that acquires the bus inside those calls does not find it held
\* by the manager that called it.
Thm_C16_NegotiatorCalledUnheld ==
  /\ pc \in {"begin_56", "maintain_147"} => held = 0
  /\ \A i \in DOMAIN log : log[i].e \in NegotiatorCalls => log[i].h = 0
  /\ \A i \in DOMAIN log :
       log[i].e \in NegotiatorCalls =>
         Cardinality({j \in 1..i : log[j].e = "beginTransaction"})
           = Cardinality({j \in 1..i : log[j].e = "endTransaction"})

\* ... both calls have been made on one manager.
Wit_C16_NegotiatorCalledUnheld ==
  /\ pc = "maintain_148"
  /\ log = <<Unheld("checkLease")>>
  /\ lease \in Leases
  /\ chip.mac \in MACs

\* C17: whenever the manager is between calls it holds no bus acquisition
\* (every acquire made so far has been released) and the call just completed
\* made as many releases as acquires; at no time does the manager hold more
\* than one acquisition: every acquire is made with none held and every
\* release with exactly one held.
Thm_C17_AcquireReleasePaired ==
  /\ held \in {0, 1}
  /\ held = Count("beginTransaction") - Count("endTransaction")
  /\ \A i \in DOMAIN log :
       /\ log[i].e = "beginTransaction" => log[i].h = 0
       /\ log[i].e = "endTransaction" => log[i].h = 1
  /\ pc = "idle" =>
       /\ held = 0
       /\ Count("beginTransaction") = Count("endTransaction")

\* ... a DHCP bring-up with two acquisitions has returned.
Wit_C17_AcquireReleasePaired ==
  /\ Returned("begin_dhcp")
  /\ Count("beginTransaction") = 2
  /\ Count("endTransaction") = 2
  /\ held = 0

\* C18: for each of MAC address, local address, subnet mask and gateway
\* address: when the setter has returned, its register holds the value
\* passed, the other chip registers, the cached DNS address and the
\* negotiator are as at entry; a getter changes no register, and when the
\* last call that could write the chip was the setter of its field, it
\* returns the value that setter was passed.
RegisterOf(op) ==
  CASE op \in {"MACAddress", "setMACAddress"} -> "mac"
    [] op \in {"localIP", "setLocalIP"} -> "ip"
    [] op \in {"subnetMask", "setSubnetMask"} -> "sn"
    [] op \in {"gatewayIP", "setGatewayIP"} -> "gw"

Thm_C18_SetThenGet ==
  /\ call.op \in Setters =>
       /\ _dnsServerAddress = pre.dns
       /\ _dhcp = pre.dhcp
       /\ lease = pre.lease
       /\ pc = "idle" => chip = [pre.chip EXCEPT ![RegisterOf(call.op)] = call.args[1]]
  /\ call.op \in Accessors \ Setters =>
       /\ chip = pre.chip
       /\ _dnsServerAddress = pre.dns
       /\ (pc = "idle" /\ lastSetter.op \in Setters
             /\ RegisterOf(lastSetter.op) = RegisterOf(call.op)) =>
            ret = lastSetter.args[1]

\* ... subnetMask() has returned after setSubnetMask(v) and another getter.
Wit_C18_SetThenGet ==
  /\ Returned("subnetMask")
  /\ lastSetter.op = "setSubnetMask"
  /\ lastSetter.args[1] \in SetterAddrs
  /\ ret = lastSetter.args[1]
  /\ chip.gw # ret
  /\ chip.ip # ret

\* C19: once a static bring-up has completed successfully, the chip's local
\* address, gateway and subnet registers and the cached DNS address keep the
\* static values until the next bring-up or address setter is called, also
\* across maintain() on a manager whose DHCP bring-up was called earlier.
Cex_C19_StaticKept ==
  staticCfg # NoStatic =>
    /\ chip.ip = staticCfg.ip
    /\ chip.gw = staticCfg.gw
    /\ chip.sn = staticCfg.sn
    /\ _dnsServerAddress = staticCfg.dns

\* ... maintain() has returned a renewal on a manager that completed a static
\* bring-up after its DHCP bring-up, and the chip and the DNS cache hold the
\* lease where the static bring-up had left the static address set.
Wit_C19_LeaseOverStatic ==
  /\ Returned("maintain")
  /\ ret \in RenewedOrRebound
  /\ staticCfg # NoStatic
  /\ everDhcp
  /\ pre.lease \in Leases
  /\ pre.chip.ip = staticCfg.ip
  /\ pre.chip.gw = staticCfg.gw
  /\ pre.chip.sn = staticCfg.sn
  /\ pre.dns = staticCfg.dns
  /\ chip.ip = lease.ip
  /\ chip.gw = lease.gw
  /\ chip.sn = lease.mask
  /\ _dnsServerAddress = lease.dns
  /\ chip.ip # staticCfg.ip

====
